---- MODULE Spec2Model ----
(***************************************************************************)
(* Session gateway of yandex-maps-mcp.                                     *)
(*                                                                         *)
(* Two programs of the repository keep a session store made of a          *)
(* transport map, a server map and a creation-order array:                 *)
(*   "http" : class HttpTransport          (src/src/handlers.ts 200-558)   *)
(*   "sse"  : the stand-alone legacy server (src/server-sse.ts 485-619)    *)
(* A behaviour runs one of them; `program` says which.                     *)
(*                                                                         *)
(* Every request handler runs to its first await without interruption     *)
(* (one JavaScript task). The only await that sits between two accesses    *)
(* to the store is `await server.connect(transport)` in the stream         *)
(* establishment handlers: the session is stored before it and the close   *)
(* callback is assigned after it, so that handler is split in two steps.   *)
(***************************************************************************)
EXTENDS Integers, Sequences, FiniteSets, TLC

\* Number of stream establishments a behaviour may contain.
MaxConn == 2

\* Connections (one SSEServerTransport and one Server object each),
\* numbered in the order in which they are created.
Conns == 1..MaxConn

\* Values of SSEServerTransport.sessionId.
SessionIds == 1..MaxConn

\* randomUUID() in the constructor of the transport of connection c. The
\* gateway only ever compares session ids for equality, so one injective
\* assignment stands for all of them; it is chosen against the creation
\* order so that an id never equals the position it was created at by rule.
RandomUUID(c) == MaxConn + 1 - c

\* JavaScript `undefined`: an absent header, an absent map entry.
Undefined == 0

\* A header that is present with the empty string as its value.
EmptyString == -1

\* Values a session-id request header can take.
HeaderValues == SessionIds \cup {Undefined, EmptyString}

\* JavaScript truthiness of a header value: `if (sessionId)`.
Truthy(v) == v # Undefined /\ v # EmptyString

\* JavaScript `a || b`.
OrElse(a, b) == IF Truthy(a) THEN a ELSE b

VARIABLES
    program,        \* "http" or "sse": which program is running
    transports,     \* Map<string, SSEServerTransport>: session id -> connection
    servers,        \* Map<string, Server>: session id -> connection
    sessionOrder,   \* string[]: session ids in creation order
    sessionId,      \* transport.sessionId of each connection (Undefined: not created)
    onclose,        \* transport.onclose: "unset" or the gateway's "cleanup" callback
    pc,             \* position of the stream establishment handler of each connection
    resOpen,        \* is the underlying response stream of the connection still open
    endpoint,       \* the endpoint each transport was constructed with ("none": not created)
    cleanups,       \* how often the cleanup code has run for each session id (history)
    last            \* the last operation and what it answered (observation)

vars == <<program, transports, servers, sessionOrder, sessionId,
          onclose, pc, resOpen, endpoint, cleanups, last>>

store == <<transports, servers, sessionOrder>>

-----------------------------------------------------------------------------
(* JavaScript Map and Array primitives                                     *)

\* Map.prototype.set
MapSet(m, k, v) == [x \in DOMAIN m \cup {k} |-> IF x = k THEN v ELSE m[x]]

\* Map.prototype.delete
MapDelete(m, k) == [x \in DOMAIN m \ {k} |-> m[x]]

\* Map.prototype.get
MapGet(m, k) == IF k \in DOMAIN m THEN m[k] ELSE Undefined

\* Map.prototype.has
MapHas(m, k) == k \in DOMAIN m

EmptyMap == [x \in {} |-> Undefined]

\* Array.prototype.indexOf, 0-based, -1 when absent
IndexOf(arr, x) ==
    IF \E i \in 1..Len(arr) : arr[i] = x
    THEN (CHOOSE i \in 1..Len(arr) :
              arr[i] = x /\ \A j \in 1..(i - 1) : arr[j] # x) - 1
    ELSE -1

\* Array.prototype.splice(start, 1): a negative start counts from the end
Splice1(arr, start) ==
    LET n == Len(arr)
        s == IF start < 0
             THEN (IF n + start < 0 THEN 0 ELSE n + start)
             ELSE (IF start > n THEN n ELSE start)
    IN  [i \in 1..(IF s < n THEN n - 1 ELSE n) |->
             IF i <= s THEN arr[i] ELSE arr[i + 1]]

\* arr[i] with a 0-based index
At(arr, i) == IF i >= 0 /\ i < Len(arr) THEN arr[i + 1] ELSE Undefined

-----------------------------------------------------------------------------
(* The session store of HttpTransport                                      *)

\* A store is the triple of the two maps and the order array.
Store(t, s, o) == [transports |-> t, servers |-> s, sessionOrder |-> o]

CurrentStore == Store(transports, servers, sessionOrder)

\* storeSession(transport, server): conn is both objects, sid its sessionId
StoreSession(st, conn, sid) ==
    Store(MapSet(st.transports, sid, conn),
          MapSet(st.servers, sid, conn),
          Append(st.sessionOrder, sid))

\* cleanupSession that forgets this.servers.delete(sessionId)
CleanupSessionKeepsServer(st, sid) ==
    LET index == IndexOf(st.sessionOrder, sid)
    IN  Store(MapDelete(st.transports, sid),
              st.servers,
              IF index > -1 THEN Splice1(st.sessionOrder, index)
                            ELSE st.sessionOrder)

\* cleanupSession that splices without testing index > -1
CleanupSessionNoGuard(st, sid) ==
    Store(MapDelete(st.transports, sid),
          MapDelete(st.servers, sid),
          Splice1(st.sessionOrder, IndexOf(st.sessionOrder, sid)))

\* cleanupSession(sessionId)
CleanupSession(st, sid) ==
    LET index == IndexOf(st.sessionOrder, sid)
    IN  Store(MapDelete(st.transports, sid),
              MapDelete(st.servers, sid),
              IF index > -1 THEN Splice1(st.sessionOrder, index)
                            ELSE st.sessionOrder)

\* findTransport that falls back to the sole session when the id is unknown
FindTransportOrSole(st, sid) ==
    IF Truthy(sid) /\ MapHas(st.transports, sid)
    THEN MapGet(st.transports, sid)
    ELSE IF Len(st.sessionOrder) = 1
         THEN MapGet(st.transports, At(st.sessionOrder, 0))
         ELSE Undefined

\* findTransport that prefers the most recently created session to the one
\* the id names
FindTransportMostRecent(st, sid) ==
    IF Len(st.sessionOrder) > 1
    THEN MapGet(st.transports, At(st.sessionOrder, Len(st.sessionOrder) - 1))
    ELSE IF Truthy(sid) THEN MapGet(st.transports, sid)
    ELSE IF Len(st.sessionOrder) = 1
    THEN MapGet(st.transports, At(st.sessionOrder, 0))
    ELSE Undefined

\* findTransport(sessionId?)
FindTransport(st, sid) ==
    IF Truthy(sid) THEN MapGet(st.transports, sid)
    ELSE IF Len(st.sessionOrder) = 1
         THEN MapGet(st.transports, At(st.sessionOrder, 0))
         ELSE Undefined

-----------------------------------------------------------------------------
(* The session store of the stand-alone legacy server                      *)

\* the statements that store a session in the GET /sse handler
SseStore(st, conn, sid) ==
    Store(MapSet(st.transports, sid, conn),
          MapSet(st.servers, sid, conn),
          Append(st.sessionOrder, sid))

\* the body of transport.onclose in the GET /sse handler
SseOnClose(st, sid) ==
    LET index == IndexOf(st.sessionOrder, sid)
    IN  Store(MapDelete(st.transports, sid),
              MapDelete(st.servers, sid),
              IF index > -1 THEN Splice1(st.sessionOrder, index)
                            ELSE st.sessionOrder)

\* the resolution of the target transport in the POST /message handler
SseResolve(st, sid) ==
    IF Truthy(sid) THEN MapGet(st.transports, sid)
    ELSE IF Len(st.sessionOrder) = 1
         THEN MapGet(st.transports, At(st.sessionOrder, 0))
         ELSE IF Len(st.sessionOrder) > 1
              THEN MapGet(st.transports,
                          At(st.sessionOrder, Len(st.sessionOrder) - 1))
              ELSE Undefined

-----------------------------------------------------------------------------
(* JSON values and protocol messages                                       *)

\* A JSON value is written as its JSON text, a string value with single
\* quotes ("0", "7", "''", "null"). JsonUndefined is a property that is
\* absent: JSON.stringify leaves it out.
JsonUndefined == "undefined"

\* JavaScript falsiness of a JSON value: the left side of `id || null`
Falsy(v) == v \in {JsonUndefined, "null", "0", "''", "false"}

\* Values of the id of a request
IdValues == {"0", "7", "''", JsonUndefined}

\* Values of the method of a request (JsonUndefined: no method property)
Methods == {"initialize", "tools/list", "tools/call", "ping", JsonUndefined}

\* Values of params.name of a tools/call request
ToolNames == {"maps_geocode", "maps_reverse_geocode", "maps_render",
              "maps_unknown", JsonUndefined}

\* A request body.
\*   kind    "invalid": not JSON text; "null": the JSON null; "scalar": a
\*           number, string, boolean or array (reading a property of it gives
\*           undefined); "object": a JSON object
\*   params  "undefined": no params; "noargs": params without arguments;
\*           "full": params with arguments
Request(kind, id, method, params, name) ==
    [kind |-> kind, id |-> id, method |-> method, params |-> params,
     name |-> name]

NoRequest == Request("none", JsonUndefined, JsonUndefined, "undefined",
                     JsonUndefined)

\* The request bodies a POST is tried with.
Requests ==
    {Request(k, JsonUndefined, JsonUndefined, "undefined", JsonUndefined) :
         k \in {"invalid", "null", "scalar"}}
    \cup {Request("object", i, m, "undefined", JsonUndefined) :
              i \in IdValues, m \in Methods}
    \cup {Request("object", i, "tools/call", p, n) :
              i \in IdValues, p \in {"noargs", "full"}, n \in ToolNames}
    \cup {Request("object", i, "initialize", p, JsonUndefined) :
              i \in IdValues, p \in {"noargs", "full"}}

\* The request body the POSTs of the session specification carry
ProbeRequests == {Request("object", "7", "tools/list", "undefined", JsonUndefined)}

\* The requests a session-bound Server hands to its CallTool handler: the
\* schema of the request has been checked, so params.name is a string.
CallToolRequests ==
    {Request("object", i, "tools/call", p, n) :
         i \in IdValues \ {JsonUndefined}, p \in {"noargs", "full"},
         n \in ToolNames \ {JsonUndefined}}

\* the descriptors in another order
MAPS_TOOLS_Reordered == <<"maps_reverse_geocode", "maps_geocode", "maps_render">>

\* MAPS_TOOLS: the descriptors, each written as its name
MAPS_TOOLS == <<"maps_geocode", "maps_reverse_geocode", "maps_render">>

\* The result member of a response.
\*   kind  "undefined" (no result member), "initialize", "tools", "toolResult"
Result(kind, info, tools, content, isError) ==
    [kind |-> kind, info |-> info, tools |-> tools, content |-> content,
     isError |-> isError]

NoResult == Result("undefined", <<>>, <<>>, <<>>, FALSE)

\* { content, isError }
ToolResult(content, isError) == Result("toolResult", <<>>, <<>>, content, isError)

\* The error member of a response.
\*   kind      "undefined" (no error member) or "error"
\*   dataKind  "undefined", "string" (a message) or "method" ({ method })
ErrorObject(code, message, dataKind, data) ==
    [kind |-> "error", code |-> code, message |-> message,
     dataKind |-> dataKind, data |-> data]

NoError == [kind |-> "undefined", code |-> 0, message |-> "",
            dataKind |-> "undefined", data |-> JsonUndefined]

\* A response: the HTTP status and the members of the JSON body
Response(status, id, result, error) ==
    [status |-> status, id |-> id, result |-> result, error |-> error]

NoResponse == Response(0, JsonUndefined, NoResult, NoError)

\* sendJsonResponse(res, id, result)
SendJsonResponse(id, result) == Response(200, id, result, NoError)

\* sendJsonError that also writes a result member
SendJsonErrorWithResult(code, message, dataKind, data, id) ==
    Response(200, IF Falsy(id) THEN "null" ELSE id,
             Result("toolResult", <<>>, <<>>, <<message>>, TRUE),
             ErrorObject(code, message, dataKind, data))

\* sendJsonError(res, code, message, data, id)
SendJsonError(code, message, dataKind, data, id) ==
    Response(200, IF Falsy(id) THEN "null" ELSE id, NoResult,
             ErrorObject(code, message, dataKind, data))

-----------------------------------------------------------------------------
(* The Tool Execution collaborator                                         *)

\* What an invocation of a collaborator operation can do: return a success
\* payload, return a domain failure, or raise.
Outcomes == {"ok", "fail", "throw"}

\* One invocation of handleGeocode / handleReverseGeocode / handleRenderMap
\* and what it gave back.
Invoke(operation, outcome) ==
    [operation |-> operation,
     threw |-> outcome = "throw",
     content |-> IF outcome = "throw" THEN <<>> ELSE <<operation, outcome>>,
     isError |-> outcome = "fail"]

\* What the upstream service does to the one request an operation sends it.
\*   "fetchRejects"  the network call fails: fetch rejects
\*   "notJson"       the body is not JSON text: response.json() rejects
\*   "errorBody"     the body is a JSON object with an error member
\*   "noResults"     the body has no response member or no feature
\*   "notOk"         the status is not 2xx: response.ok is false
\*   "bodyFails"     reading the body fails: response.arrayBuffer() rejects
\*   "ok"            a usable answer
GeocoderUpstreams == {"fetchRejects", "notJson", "errorBody", "noResults", "ok"}

StaticMapUpstreams == {"fetchRejects", "notOk", "bodyFails", "ok"}

\* The placemarks argument of handleRenderMap: absent, an array of marks,
\* or a value that is truthy and has a length but is no array (a string)
PlacemarkValues == {"undefined", "array", "notArray"}

\* what an operation gives back
Gave(operation, content, isError) ==
    [operation |-> operation, threw |-> FALSE, content |-> content,
     isError |-> isError]

\* an operation raises
Threw(operation) ==
    [operation |-> operation, threw |-> TRUE, content |-> <<>>,
     isError |-> FALSE]

\* The body shared by handleGeocode and handleReverseGeocode from the fetch
\* on; prefix is the start of their failure texts
Geocoder(operation, prefix, upstream) ==
    CASE upstream = "fetchRejects" -> Threw(operation)
      [] upstream = "notJson" -> Threw(operation)
      [] upstream = "errorBody" -> Gave(operation, <<prefix, "message">>, TRUE)
      [] upstream = "noResults" ->
             Gave(operation, <<prefix, "No results found">>, TRUE)
      [] OTHER -> Gave(operation, <<"location", operation>>, FALSE)

\* Array.prototype.join for an array of strings, null and undefined: the
\* result is written as the sequence of the pieces it concatenates, and
\* null and undefined give the empty piece
JoinPiece(part) == IF part \in {JsonUndefined, "null"} THEN "" ELSE part

RECURSIVE ArrayJoin(_, _)
ArrayJoin(arr, separator) ==
    IF Len(arr) = 0 THEN <<>>
    ELSE IF Len(arr) = 1 THEN <<JoinPiece(arr[1])>>
    ELSE ArrayJoin(SubSeq(arr, 1, Len(arr) - 1), separator)
             \o <<separator, JoinPiece(arr[Len(arr)])>>

\* A string written as the sequence of its non-empty pieces: concatenating
\* an empty piece adds nothing
Concat(pieces) == SelectSeq(pieces, LAMBDA piece : piece # "")

\* addressParts of handleGeocode without the test for the empty string
addressPartsKeepsEmpty(country, state, city, district, street, house_number) ==
    SelectSeq(<<house_number, street, district, city, state, country>>,
              LAMBDA part : part # JsonUndefined)

\* const addressParts = [...].filter(part => part !== undefined && part !== '')
addressParts(country, state, city, district, street, house_number) ==
    SelectSeq(<<house_number, street, district, city, state, country>>,
              LAMBDA part : part # JsonUndefined /\ part # "")

\* const address = addressParts.join(', ')
address(country, state, city, district, street, house_number) ==
    Concat(ArrayJoin(addressParts(country, state, city, district, street,
                                  house_number), ", "))

\* The values one address component is given: absent, the empty string, a
\* text (written as the name of the component), or null, which a JSON
\* arguments object can carry although the parameter is declared a string
ComponentValues(name) == {JsonUndefined, "", name, "null"}

\* handleGeocode(country, lang, state, city, district, street, house_number)
HandleGeocode(upstream) ==
    Geocoder("handleGeocode", "Geocoding failed", upstream)

\* handleReverseGeocode(latitude, longitude, lang)
HandleReverseGeocode(upstream) ==
    Geocoder("handleReverseGeocode", "Reverse geocoding failed", upstream)

\* handleRenderMap(latitude, longitude, latitude_span, longitude_span, lang,
\* placemarks)
HandleRenderMap(upstream, placemarks) ==
    IF placemarks = "notArray" THEN Threw("handleRenderMap")
    ELSE CASE upstream = "fetchRejects" ->
                  Gave("handleRenderMap", <<"Error rendering map", "fetch">>, TRUE)
           [] upstream = "notOk" ->
                  Gave("handleRenderMap", <<"Failed to fetch map image", "status">>,
                       TRUE)
           [] upstream = "bodyFails" ->
                  Gave("handleRenderMap", <<"Error rendering map", "body">>, TRUE)
           [] OTHER -> Gave("handleRenderMap", <<"image", "handleRenderMap">>, FALSE)

\* The outcomes to try for a request: the collaborator is consulted only by
\* a tools/call that names one of the three tools and carries arguments.
OutcomesFor(body) ==
    IF /\ body.kind = "object" /\ body.method = "tools/call"
       /\ body.params = "full"
       /\ body.name \in {"maps_geocode", "maps_reverse_geocode", "maps_render"}
    THEN Outcomes
    ELSE {"ok"}

\* The collaborator operation each tool name is bound to
OperationOf(name) ==
    CASE name = "maps_geocode" -> "handleGeocode"
      [] name = "maps_reverse_geocode" -> "handleReverseGeocode"
      [] name = "maps_render" -> "handleRenderMap"
      [] OTHER -> "none"

-----------------------------------------------------------------------------
(* The stateless dispatcher of HttpTransport                               *)

\* What a dispatcher function gives back: the collaborator invocations it
\* made, the response it wrote, and whether it raised instead (with the
\* message of the exception).
Done(calls, resp) ==
    [calls |-> calls, resp |-> resp, threw |-> FALSE, message |-> ""]

Raised(calls, message) ==
    [calls |-> calls, resp |-> NoResponse, threw |-> TRUE, message |-> message]

\* handleToolCall without its try/catch: a fault propagates to the caller
HandleToolCallNoCatch(msg, outcome) ==
    IF msg.params = "undefined" THEN Raised(<<>>, "TypeError")
    ELSE IF OperationOf(msg.name) = "none"
    THEN Done(<<>>, SendJsonResponse(msg.id,
                        ToolResult(<<"Unknown tool", msg.name>>, TRUE)))
    ELSE IF msg.params = "noargs" THEN Raised(<<>>, "TypeError")
    ELSE LET result == Invoke(OperationOf(msg.name), outcome)
         IN  IF result.threw
             THEN Raised(<<result>>, "collaborator")
             ELSE Done(<<result>>, SendJsonResponse(msg.id,
                          ToolResult(result.content, result.isError)))

\* handleToolCall that answers every collaborator result as a plain success
HandleToolCallDropsIsError(msg, outcome) ==
    IF msg.params = "undefined"
    THEN Done(<<>>, SendJsonResponse(msg.id,
                        ToolResult(<<"Tool error", "TypeError">>, TRUE)))
    ELSE IF OperationOf(msg.name) = "none"
    THEN Done(<<>>, SendJsonResponse(msg.id,
                        ToolResult(<<"Unknown tool", msg.name>>, TRUE)))
    ELSE IF msg.params = "noargs"
    THEN Done(<<>>, SendJsonResponse(msg.id,
                        ToolResult(<<"Tool error", "TypeError">>, TRUE)))
    ELSE LET result == Invoke(OperationOf(msg.name), outcome)
         IN  IF result.threw
             THEN Done(<<result>>, SendJsonResponse(msg.id,
                          ToolResult(<<"Tool error", "collaborator">>, TRUE)))
             ELSE Done(<<result>>, SendJsonResponse(msg.id,
                          ToolResult(result.content, FALSE)))

\* handleToolCall(jsonMessage, res); outcome is what the collaborator does
\* if it is invoked
HandleToolCall(msg, outcome) ==
    IF msg.params = "undefined"
    THEN Done(<<>>, SendJsonResponse(msg.id,
                        ToolResult(<<"Tool error", "TypeError">>, TRUE)))
    ELSE IF OperationOf(msg.name) = "none"
    THEN Done(<<>>, SendJsonResponse(msg.id,
                        ToolResult(<<"Unknown tool", msg.name>>, TRUE)))
    ELSE IF msg.params = "noargs"
    THEN Done(<<>>, SendJsonResponse(msg.id,
                        ToolResult(<<"Tool error", "TypeError">>, TRUE)))
    ELSE LET result == Invoke(OperationOf(msg.name), outcome)
         IN  IF result.threw
             THEN Done(<<result>>, SendJsonResponse(msg.id,
                          ToolResult(<<"Tool error", "collaborator">>, TRUE)))
             ELSE Done(<<result>>, SendJsonResponse(msg.id,
                          ToolResult(result.content, result.isError)))

\* The result of initialize: protocolVersion, serverInfo.name,
\* serverInfo.version and the capabilities ({ tools: {} })
InitializeResult ==
    <<"2024-11-05", "mcp-server/yandex-maps", "0.1.0", "capabilities: tools">>

\* handleStreamableHttpPost whose initialize case reads a property of
\* params
HandleStreamableHttpPostInitializeReadsParams(body, outcome) ==
    IF body.kind = "invalid" THEN Raised(<<>>, "SyntaxError")
    ELSE IF body.kind = "null" THEN Raised(<<>>, "TypeError")
    ELSE LET method == IF body.kind = "object" THEN body.method
                                               ELSE JsonUndefined
             id == IF body.kind = "object" THEN body.id ELSE JsonUndefined
         IN  CASE method = "initialize" ->
                    IF body.params = "undefined"
                    THEN Raised(<<>>, "TypeError")
                    ELSE Done(<<>>, SendJsonResponse(id,
                             Result("initialize",
                                    InitializeResult, <<>>, <<>>, FALSE)))
               [] method = "tools/list" ->
                    Done(<<>>, SendJsonResponse(id,
                        Result("tools", <<>>, MAPS_TOOLS, <<>>, FALSE)))
               [] method = "tools/call" -> HandleToolCall(body, outcome)
               [] OTHER ->
                    Done(<<>>, SendJsonError(-32601, "Method not found",
                                             "method", method, id))

\* handleStreamableHttpPost whose default branch answers "Invalid Request"
\* without naming the method
HandleStreamableHttpPostInvalidRequest(body, outcome) ==
    IF body.kind = "invalid" THEN Raised(<<>>, "SyntaxError")
    ELSE IF body.kind = "null" THEN Raised(<<>>, "TypeError")
    ELSE LET method == IF body.kind = "object" THEN body.method
                                               ELSE JsonUndefined
             id == IF body.kind = "object" THEN body.id ELSE JsonUndefined
         IN  CASE method = "initialize" ->
                    Done(<<>>, SendJsonResponse(id,
                        Result("initialize",
                               InitializeResult, <<>>, <<>>, FALSE)))
               [] method = "tools/list" ->
                    Done(<<>>, SendJsonResponse(id,
                        Result("tools", <<>>, MAPS_TOOLS, <<>>, FALSE)))
               [] method = "tools/call" -> HandleToolCall(body, outcome)
               [] OTHER ->
                    Done(<<>>, SendJsonError(-32600, "Invalid Request",
                                             "undefined", JsonUndefined, id))

\* handleStreamableHttpPost(body, res)
HandleStreamableHttpPost(body, outcome) ==
    IF body.kind = "invalid" THEN Raised(<<>>, "SyntaxError")
    ELSE IF body.kind = "null" THEN Raised(<<>>, "TypeError")
    ELSE LET method == IF body.kind = "object" THEN body.method
                                               ELSE JsonUndefined
             id == IF body.kind = "object" THEN body.id ELSE JsonUndefined
         IN  CASE method = "initialize" ->
                    Done(<<>>, SendJsonResponse(id,
                        Result("initialize",
                               InitializeResult, <<>>, <<>>, FALSE)))
               [] method = "tools/list" ->
                    Done(<<>>, SendJsonResponse(id,
                        Result("tools", <<>>, MAPS_TOOLS, <<>>, FALSE)))
               [] method = "tools/call" -> HandleToolCall(body, outcome)
               [] OTHER ->
                    Done(<<>>, SendJsonError(-32601, "Method not found",
                                             "method", method, id))

\* The else branch and the catch block of handleMcpPost
DispatchStateless(body, outcome) ==
    LET r == HandleStreamableHttpPost(body, outcome)
    IN  IF r.threw
        THEN Done(r.calls, SendJsonError(-32603, "Internal error", "string",
                                         r.message, JsonUndefined))
        ELSE r

-----------------------------------------------------------------------------
(* The request handlers of createMCPServer                                 *)

\* What a request handler gives back: the invocations it made and the value
\* it returned, or that it raised.
Returned(calls, result) == [calls |-> calls, result |-> result, threw |-> FALSE]

\* the ListTools handler
ListToolsHandler == Returned(<<>>, Result("tools", <<>>, MAPS_TOOLS, <<>>, FALSE))

\* the CallTool handler that raises on a tool name it does not know
CallToolHandlerUnknownRaises(request, outcome) ==
    IF OperationOf(request.params.name) = "none"
    THEN [calls |-> <<>>, result |-> NoResult, threw |-> TRUE]
    ELSE IF request.params.arguments = "undefined"
    THEN Returned(<<>>, ToolResult(<<"Error", "TypeError">>, TRUE))
    ELSE LET result == Invoke(OperationOf(request.params.name), outcome)
         IN  IF result.threw
             THEN Returned(<<result>>, ToolResult(<<"Error", "collaborator">>, TRUE))
             ELSE Returned(<<result>>, ToolResult(result.content, result.isError))

\* the CallTool handler that invokes the collaborator again after a failure
CallToolHandlerRetries(request, outcome) ==
    IF OperationOf(request.params.name) = "none"
    THEN Returned(<<>>, ToolResult(<<"Unknown tool", request.params.name>>, TRUE))
    ELSE IF request.params.arguments = "undefined"
    THEN Returned(<<>>, ToolResult(<<"Error", "TypeError">>, TRUE))
    ELSE LET result == Invoke(OperationOf(request.params.name), outcome)
             again == Invoke(OperationOf(request.params.name), outcome)
         IN  IF result.threw \/ result.isError
             THEN IF again.threw
                  THEN Returned(<<result, again>>,
                                ToolResult(<<"Error", "collaborator">>, TRUE))
                  ELSE Returned(<<result, again>>,
                                ToolResult(again.content, again.isError))
             ELSE Returned(<<result>>, ToolResult(result.content, result.isError))

\* the CallTool handler
CallToolHandler(request, outcome) ==
    IF OperationOf(request.params.name) = "none"
    THEN Returned(<<>>, ToolResult(<<"Unknown tool", request.params.name>>, TRUE))
    ELSE IF request.params.arguments = "undefined"
    THEN Returned(<<>>, ToolResult(<<"Error", "TypeError">>, TRUE))
    ELSE LET result == Invoke(OperationOf(request.params.name), outcome)
         IN  IF result.threw
             THEN Returned(<<result>>, ToolResult(<<"Error", "collaborator">>, TRUE))
             ELSE Returned(<<result>>, ToolResult(result.content, result.isError))

\* The request object the Server passes to the CallTool handler for a body
ParsedCallTool(body) ==
    [params |-> [name |-> body.name,
                 arguments |-> IF body.params = "full" THEN "object"
                                                       ELSE "undefined"]]

-----------------------------------------------------------------------------
-----------------------------------------------------------------------------
(* The arguments the two tool-call handlers pass to the collaborator       *)

\* An arguments object is written as the set of its property names; the
\* value of property f is written f, a missing property reads as undefined.
Prop(obj, f) == IF f \in obj THEN f ELSE JsonUndefined

\* the CallTool handler that passes longitude before latitude to
\* handleReverseGeocode
CallToolHandlerArgsSwapped(name, arguments) ==
    CASE name = "maps_geocode" ->
             <<Prop(arguments, "country"), Prop(arguments, "lang"),
               Prop(arguments, "state"), Prop(arguments, "city"),
               Prop(arguments, "district"), Prop(arguments, "street"),
               Prop(arguments, "house_number")>>
      [] name = "maps_reverse_geocode" ->
             <<Prop(arguments, "longitude"), Prop(arguments, "latitude"),
               Prop(arguments, "lang")>>
      [] name = "maps_render" ->
             <<Prop(arguments, "latitude"), Prop(arguments, "longitude"),
               Prop(arguments, "latitude_span"),
               Prop(arguments, "longitude_span"), Prop(arguments, "lang"),
               Prop(arguments, "placemarks")>>
      [] OTHER -> <<>>

\* The argument list of the collaborator call in the CallTool handler: the
\* destructured properties in the order of the call
CallToolHandlerArgs(name, arguments) ==
    CASE name = "maps_geocode" ->
             <<Prop(arguments, "country"), Prop(arguments, "lang"),
               Prop(arguments, "state"), Prop(arguments, "city"),
               Prop(arguments, "district"), Prop(arguments, "street"),
               Prop(arguments, "house_number")>>
      [] name = "maps_reverse_geocode" ->
             <<Prop(arguments, "latitude"), Prop(arguments, "longitude"),
               Prop(arguments, "lang")>>
      [] name = "maps_render" ->
             <<Prop(arguments, "latitude"), Prop(arguments, "longitude"),
               Prop(arguments, "latitude_span"),
               Prop(arguments, "longitude_span"), Prop(arguments, "lang"),
               Prop(arguments, "placemarks")>>
      [] OTHER -> <<>>

\* The argument list of the collaborator call in handleToolCall
HandleToolCallArgs(toolName, toolArgs) ==
    CASE toolName = "maps_geocode" ->
             <<Prop(toolArgs, "country"), Prop(toolArgs, "lang"),
               Prop(toolArgs, "state"), Prop(toolArgs, "city"),
               Prop(toolArgs, "district"), Prop(toolArgs, "street"),
               Prop(toolArgs, "house_number")>>
      [] toolName = "maps_reverse_geocode" ->
             <<Prop(toolArgs, "latitude"), Prop(toolArgs, "longitude"),
               Prop(toolArgs, "lang")>>
      [] toolName = "maps_render" ->
             <<Prop(toolArgs, "latitude"), Prop(toolArgs, "longitude"),
               Prop(toolArgs, "latitude_span"),
               Prop(toolArgs, "longitude_span"), Prop(toolArgs, "lang"),
               Prop(toolArgs, "placemarks")>>
      [] OTHER -> <<>>

\* The properties the descriptor of a tool names; a request may carry any
\* subset of them
DescribedArguments(name) ==
    CASE name = "maps_geocode" ->
             {"country", "lang", "state", "city", "district", "street",
              "house_number"}
      [] name = "maps_reverse_geocode" -> {"latitude", "longitude", "lang"}
      [] name = "maps_render" ->
             {"latitude", "longitude", "latitude_span", "longitude_span",
              "lang", "placemarks"}
      [] OTHER -> {"lang"}

ArgumentObjects(name) == SUBSET DescribedArguments(name)

-----------------------------------------------------------------------------
(* The router of HttpTransport                                             *)

HttpMethods == {"GET", "POST", "DELETE", "OPTIONS", "PUT"}

\* Request targets: the five routes, another path, and "//", which the URL
\* constructor rejects (a scheme-relative reference with an empty host)
Paths == {"/mcp", "/sse", "/message", "/tools", "/health", "/other", "//"}

\* new URL(req.url || '/', `http://${req.headers.host}`): does it return
NewUrlReturns(path) == path # "//"

CorsHeaders == {"Access-Control-Allow-Origin", "Access-Control-Allow-Methods",
                "Access-Control-Allow-Headers"}

\* setCorsHeaders(res): headers is the set of header names set on res
SetCorsHeaders(headers) == headers \cup CorsHeaders

\* The headers of the response object a handler is given: handleRequest (and
\* the request listener of the stand-alone legacy server) sets the
\* cross-origin headers on it before anything else.
HandlerRes == SetCorsHeaders({})

\* handleRequest and handleMcpEndpoint after setCorsHeaders: the function
\* that takes over the request
Route(method, path) ==
    IF method = "OPTIONS" THEN "options"
    ELSE CASE path = "/mcp" ->
                (CASE method = "GET" -> "handleMcpGet"
                   [] method = "POST" -> "handleMcpPost"
                   [] method = "DELETE" -> "handleMcpDelete"
                   [] OTHER -> "handleMethodNotAllowed")
           [] path = "/sse" -> "handleLegacySseEndpoint"
           [] path = "/message" -> "handleLegacyMessageEndpoint"
           [] path = "/tools" -> "handleToolsDiscovery"
           [] path = "/health" -> "handleHealthCheck"
           [] OTHER -> "handle404"

-----------------------------------------------------------------------------
(* Observation of the last operation                                       *)

\* op      the handler or callback that ran
\* sid     the session-id header of the request, or the id of the connection
\*         the step is about
\* status  the HTTP status the gateway wrote (0: none written by the gateway)
\* target  the connection whose transport received the message (Undefined: none)
\* route   "session", "dispatcher" or "none"
\* req     the protocol request the step handled (NoRequest: none recorded)
\* resp    the protocol response the step produced (NoResponse: none recorded)
\* calls   the collaborator invocations the step made, in order
\* method  the HTTP method and
\* path    the path of the request, where the step records them ("none":
\*         not recorded)
\* headers the headers set on the response object the step wrote to
ObsRpc(op, sid, status, target, route, req, resp, calls) ==
    [op |-> op, sid |-> sid, status |-> status, target |-> target,
     route |-> route, req |-> req, resp |-> resp, calls |-> calls,
     method |-> "none", path |-> "none", headers |-> HandlerRes]

\* the observation of a step that records the request line
Routed(method, path, obs) == [obs EXCEPT !.method = method, !.path = path]

Obs(op, sid, status, target, route) ==
    ObsRpc(op, sid, status, target, route, NoRequest, NoResponse, <<>>)

SetStore(st) ==
    /\ transports' = st.transports
    /\ servers' = st.servers
    /\ sessionOrder' = st.sessionOrder

\* the connection the next `new SSEServerTransport` creates
NextConn == Cardinality({c \in Conns : pc[c] # "idle"}) + 1

Init ==
    /\ program \in {"http", "sse"}
    /\ transports = EmptyMap
    /\ servers = EmptyMap
    /\ sessionOrder = <<>>
    /\ sessionId = [c \in Conns |-> Undefined]
    /\ onclose = [c \in Conns |-> "unset"]
    /\ pc = [c \in Conns |-> "idle"]
    /\ resOpen = [c \in Conns |-> FALSE]
    /\ endpoint = [c \in Conns |-> "none"]
    /\ cleanups = [i \in SessionIds |-> 0]
    /\ last = Obs("init", Undefined, 0, Undefined, "none")

-----------------------------------------------------------------------------
(* HttpTransport: stream establishment                                     *)

\* The try block of a stream establishment handler up to its await:
\* new SSEServerTransport(endpoint, res), createMCPServer(), the store
\* statements. http says which program's store code runs; sid is the id
\* the new transport gave itself.
BeginStreamWith(op, http, sid) ==
    /\ NextConn <= MaxConn
    /\ LET c == NextConn
       IN    /\ sessionId' = [sessionId EXCEPT ![c] = sid]
             /\ endpoint' = [endpoint EXCEPT ![c] =
                                IF op = "mcpGet" THEN "/mcp" ELSE "/message"]
             /\ pc' = [pc EXCEPT ![c] = "connecting"]
             /\ resOpen' = [resOpen EXCEPT ![c] = TRUE]
             /\ SetStore(IF http THEN StoreSession(CurrentStore, c, sid)
                                 ELSE SseStore(CurrentStore, c, sid))
             /\ last' = Obs(op, sid, 0, Undefined, "none")
    /\ UNCHANGED <<program, onclose, cleanups>>

\* The same with the id RandomUUID gives the connection.
BeginStream(op, http) == BeginStreamWith(op, http, RandomUUID(NextConn))

\* handleMcpGet for a request that asks for an event stream, when the
\* transport it constructs gives itself the id sid (randomUUID() in the
\* transport's constructor: nothing in the gateway keeps it from returning
\* an id that is in use)
McpGetWithId(sid) ==
    /\ program = "http"
    /\ BeginStreamWith("mcpGet", TRUE, sid)

\* handleMcpGet that establishes a stream whatever the Accept header says
McpGetIgnoresAccept(accept) ==
    /\ program = "http"
    /\ BeginStream("mcpGet", TRUE)

\* handleMcpGet: GET /mcp; accept says whether the Accept header
\* includes text/event-stream
McpGet(accept) ==
    /\ program = "http"
    /\ IF accept
       THEN BeginStream("mcpGet", TRUE)
       ELSE /\ last' = Obs("mcpGet", Undefined, 405, Undefined, "none")
            /\ UNCHANGED <<program, endpoint, store, sessionId, onclose, pc,
                           resOpen, cleanups>>

\* handleLegacySseEndpoint: GET /sse
LegacySseGet ==
    /\ program = "http"
    /\ BeginStream("legacySseGet", TRUE)

\* server.connect(transport) resolves: the handler assigns transport.onclose
ConnectResolve(c) ==
    /\ program = "http"
    /\ pc[c] = "connecting"
    /\ pc' = [pc EXCEPT ![c] = "established"]
    /\ onclose' = [onclose EXCEPT ![c] = "cleanup"]
    /\ last' = Obs("connected", sessionId[c], 0, Undefined, "none")
    /\ UNCHANGED <<program, endpoint, store, sessionId, resOpen, cleanups>>

\* server.connect(transport) rejects: the catch block answers 500
ConnectReject(c) ==
    /\ program = "http"
    /\ pc[c] = "connecting"
    /\ pc' = [pc EXCEPT ![c] = "failed"]
    /\ last' = Obs("connectFailed", sessionId[c], 500, Undefined, "none")
    /\ UNCHANGED <<program, endpoint, store, sessionId, onclose, resOpen, cleanups>>

\* transport.onclose?.() : runs the callback the gateway assigned, if any
RunOnClose(c) ==
    IF onclose[c] = "cleanup"
    THEN /\ SetStore(IF program = "http"
                     THEN CleanupSession(CurrentStore, sessionId[c])
                     ELSE SseOnClose(CurrentStore, sessionId[c]))
         /\ cleanups' = [cleanups EXCEPT ![sessionId[c]] = @ + 1]
    ELSE UNCHANGED <<store, cleanups>>

\* The underlying connection of c closes: the transport calls onclose.
CloseConnection(c) ==
    /\ pc[c] # "idle"
    /\ resOpen[c]
    /\ resOpen' = [resOpen EXCEPT ![c] = FALSE]
    /\ RunOnClose(c)
    /\ last' = Obs("close", sessionId[c], 0, Undefined, "none")
    /\ UNCHANGED <<program, endpoint, sessionId, onclose, pc>>

-----------------------------------------------------------------------------
(* HttpTransport: message submission and termination                       *)

\* What a handler does once the target transport is resolved:
\* transport.handlePostMessage(req, res), which either answers the request
\* itself or throws; onThrow is the status the handler's catch block writes.
Deliver(op, sid, transport, onThrow) ==
    \E throws \in BOOLEAN :
        last' = Obs(op, sid, IF throws THEN onThrow ELSE 0, transport, "session")

\* What the observation records of the two session-id headers of a POST /mcp:
\* the id the handler used, Undefined when the request carried neither
\* header, EmptyString when it carried one that is empty.
HeaderSeen(h1, h2) ==
    IF Truthy(OrElse(h1, h2)) THEN OrElse(h1, h2)
    ELSE IF h1 = Undefined /\ h2 = Undefined THEN Undefined ELSE EmptyString

\* handleMcpPost: POST /mcp; h1 is the mcp-session-id header, h2 x-session-id,
\* body the request body, outcome what the collaborator does if invoked.
\* The collaborator call is awaited inside the handler; the handler reads
\* nothing of the store after it, so the handler is one step.
McpPost(h1, h2, body, outcome) ==
    /\ program = "http"
    /\ LET sid == OrElse(h1, h2)
           transport == FindTransport(CurrentStore, sid)
           r == DispatchStateless(body, outcome)
       IN  IF transport # Undefined
           THEN Deliver("mcpPost", HeaderSeen(h1, h2), transport, 200)
           ELSE last' = ObsRpc("mcpPost", HeaderSeen(h1, h2), r.resp.status,
                               Undefined, "dispatcher", body, r.resp, r.calls)
    /\ UNCHANGED <<program, endpoint, store, sessionId, onclose, pc, resOpen,
                   cleanups>>

\* handleToolsDiscovery: /tools; the body of the answer is the bare
\* { tools } object, recorded as the result of the response
ToolsDiscovery(method) ==
    /\ program = "http"
    /\ last' = Routed(method, "/tools",
               IF method # "GET"
               THEN Obs("toolsDiscovery", Undefined, 405, Undefined, "none")
               ELSE ObsRpc("toolsDiscovery", Undefined, 200, Undefined, "none",
                           NoRequest,
                           Response(200, JsonUndefined,
                                    Result("tools", <<>>, MAPS_TOOLS, <<>>, FALSE),
                                    NoError),
                           <<>>))
    /\ UNCHANGED <<program, endpoint, store, sessionId, onclose, pc, resOpen,
                   cleanups>>

\* handleHealthCheck: /health
HealthCheck(method) ==
    /\ program = "http"
    /\ last' = Routed(method, "/health",
                      Obs("healthCheck", Undefined,
                          IF method # "GET" THEN 405 ELSE 200, Undefined, "none"))
    /\ UNCHANGED <<program, endpoint, store, sessionId, onclose, pc, resOpen,
                   cleanups>>

\* One call of a collaborator operation, as the handlers above make it
GeocodeCall(upstream) ==
    /\ last' = ObsRpc("handleGeocode", Undefined, 0, Undefined, "none",
                      NoRequest, NoResponse, <<HandleGeocode(upstream)>>)
    /\ UNCHANGED <<program, endpoint, store, sessionId, onclose, pc, resOpen,
                   cleanups>>

ReverseGeocodeCall(upstream) ==
    /\ last' = ObsRpc("handleReverseGeocode", Undefined, 0, Undefined, "none",
                      NoRequest, NoResponse, <<HandleReverseGeocode(upstream)>>)
    /\ UNCHANGED <<program, endpoint, store, sessionId, onclose, pc, resOpen,
                   cleanups>>

RenderMapCall(upstream, placemarks) ==
    /\ last' = ObsRpc("handleRenderMap", Undefined, 0, Undefined, "none",
                      NoRequest, NoResponse,
                      <<HandleRenderMap(upstream, placemarks)>>)
    /\ UNCHANGED <<program, endpoint, store, sessionId, onclose, pc, resOpen,
                   cleanups>>

\* The Server of connection c runs its ListTools handler on a tools/list
\* request that reached it over its transport. The observation records the
\* value the handler returned (status 0: the gateway wrote nothing itself).
ServerListTools(c) ==
    /\ program = "http"
    /\ pc[c] = "established"
    /\ LET r == ListToolsHandler
       IN  last' = ObsRpc("serverListTools", sessionId[c], 0, c, "session",
                          NoRequest,
                          Response(0, JsonUndefined, r.result, NoError), r.calls)
    /\ UNCHANGED <<program, endpoint, store, sessionId, onclose, pc, resOpen,
                   cleanups>>

\* The Server of connection c runs its CallTool handler on a tools/call
\* request that reached it over its transport. A handler that raises is
\* recorded with status 500 and no result.
ServerCallTool(c, body, outcome) ==
    /\ program = "http"
    /\ pc[c] = "established"
    /\ LET r == CallToolHandler(ParsedCallTool(body), outcome)
       IN  last' = ObsRpc("serverCallTool", sessionId[c],
                          IF r.threw THEN 500 ELSE 0, c, "session", body,
                          Response(0, JsonUndefined, r.result, NoError), r.calls)
    /\ UNCHANGED <<program, endpoint, store, sessionId, onclose, pc, resOpen,
                   cleanups>>

\* handleMcpDelete that tests the header only, not this.transports.has
McpDeleteNoHasCheck(h) ==
    /\ program = "http"
    /\ IF Truthy(h)
       THEN /\ IF MapHas(transports, h)
               THEN RunOnClose(MapGet(transports, h))
               ELSE UNCHANGED <<store, cleanups>>
            /\ last' = Obs("mcpDelete", h, 200, Undefined, "none")
       ELSE /\ last' = Obs("mcpDelete", h, 404, Undefined, "none")
            /\ UNCHANGED <<store, cleanups>>
    /\ UNCHANGED <<program, endpoint, sessionId, onclose, pc, resOpen>>

\* handleMcpDelete: DELETE /mcp; h is the mcp-session-id header
McpDelete(h) ==
    /\ program = "http"
    /\ IF Truthy(h) /\ MapHas(transports, h)
       THEN LET transport == MapGet(transports, h)
            IN  /\ RunOnClose(transport)
                /\ last' = Obs("mcpDelete", h, 200, Undefined, "none")
       ELSE /\ last' = Obs("mcpDelete", h, 404, Undefined, "none")
            /\ UNCHANGED <<store, cleanups>>
    /\ UNCHANGED <<program, endpoint, sessionId, onclose, pc, resOpen>>

\* handleMcpDelete for a request that carries the mcp-session-id header h1
\* and the x-session-id header h2: the handler reads h1 only
McpDeleteHeaders(h1, h2) == McpDelete(h1)

\* handleLegacyMessageEndpoint that drops the session whose transport threw
LegacyMessagePostCleansOnThrow(h) ==
    /\ program = "http"
    /\ LET transport == FindTransport(CurrentStore, h)
       IN  IF transport = Undefined
           THEN /\ last' = Obs("legacyPost", h, 404, Undefined, "none")
                /\ UNCHANGED store
           ELSE \E throws \in BOOLEAN :
                    /\ last' = Obs("legacyPost", h, IF throws THEN 500 ELSE 0,
                                   transport, "session")
                    /\ IF throws
                       THEN SetStore(CleanupSession(CurrentStore,
                                                    sessionId[transport]))
                       ELSE UNCHANGED store
    /\ UNCHANGED <<program, endpoint, sessionId, onclose, pc, resOpen,
                   cleanups>>

\* handleLegacyMessageEndpoint that answers through the stateless dispatcher
\* when no transport resolves, as handleMcpPost does
LegacyMessagePostDispatches(h) ==
    /\ program = "http"
    /\ LET transport == FindTransport(CurrentStore, h)
       IN  IF transport = Undefined
           THEN last' = Obs("legacyPost", h, 200, Undefined, "dispatcher")
           ELSE Deliver("legacyPost", h, transport, 500)
    /\ UNCHANGED <<program, endpoint, store, sessionId, onclose, pc, resOpen,
                   cleanups>>

\* handleLegacyMessageEndpoint that resolves in a store of its own, which
\* the unified endpoint never fills
LegacyMessagePostOwnStore(h) ==
    /\ program = "http"
    /\ LET transport == FindTransport(Store(EmptyMap, EmptyMap, <<>>), h)
       IN  IF transport = Undefined
           THEN last' = Obs("legacyPost", h, 404, Undefined, "none")
           ELSE Deliver("legacyPost", h, transport, 500)
    /\ UNCHANGED <<program, endpoint, store, sessionId, onclose, pc, resOpen,
                   cleanups>>

\* handleLegacyMessageEndpoint: POST /message; h is the x-session-id header
LegacyMessagePost(h) ==
    /\ program = "http"
    /\ LET transport == FindTransport(CurrentStore, h)
       IN  IF transport = Undefined
           THEN last' = Obs("legacyPost", h, 404, Undefined, "none")
           ELSE Deliver("legacyPost", h, transport, 500)
    /\ UNCHANGED <<program, endpoint, store, sessionId, onclose, pc, resOpen,
                   cleanups>>

-----------------------------------------------------------------------------
(* The stand-alone legacy server                                           *)

\* GET /sse up to its await
SseGet ==
    /\ program = "sse"
    /\ BeginStream("sseGet", FALSE)

\* server.connect(transport) resolves: the handler assigns transport.onclose
SseConnectResolve(c) ==
    /\ program = "sse"
    /\ pc[c] = "connecting"
    /\ pc' = [pc EXCEPT ![c] = "established"]
    /\ onclose' = [onclose EXCEPT ![c] = "cleanup"]
    /\ last' = Obs("connected", sessionId[c], 0, Undefined, "none")
    /\ UNCHANGED <<program, endpoint, store, sessionId, resOpen, cleanups>>

\* server.connect(transport) rejects: the catch block answers 500
SseConnectReject(c) ==
    /\ program = "sse"
    /\ pc[c] = "connecting"
    /\ pc' = [pc EXCEPT ![c] = "failed"]
    /\ last' = Obs("connectFailed", sessionId[c], 500, Undefined, "none")
    /\ UNCHANGED <<program, endpoint, store, sessionId, onclose, resOpen, cleanups>>

\* POST /message; h is the x-session-id header
SsePost(h) ==
    /\ program = "sse"
    /\ LET transport == SseResolve(CurrentStore, h)
       IN  IF transport = Undefined
           THEN last' = Obs("legacyPost", h, 404, Undefined, "none")
           ELSE Deliver("legacyPost", h, transport, 500)
    /\ UNCHANGED <<program, endpoint, store, sessionId, onclose, pc, resOpen,
                   cleanups>>

-----------------------------------------------------------------------------

Next ==
    \/ \E accept \in BOOLEAN : McpGet(accept)
    \/ LegacySseGet
    \/ \E c \in Conns : ConnectResolve(c)
    \/ \E c \in Conns : ConnectReject(c)
    \/ \E c \in Conns : CloseConnection(c)
    \/ \E h1 \in HeaderValues, h2 \in HeaderValues, body \in ProbeRequests :
           McpPost(h1, h2, body, "ok")
    \/ \E h \in HeaderValues : McpDelete(h)
    \/ \E h \in HeaderValues : LegacyMessagePost(h)
    \/ SseGet
    \/ \E c \in Conns : SseConnectResolve(c)
    \/ \E c \in Conns : SseConnectReject(c)
    \/ \E h \in HeaderValues : SsePost(h)

Spec == Init /\ [][Next]_vars

\* The protocol dispatch of HttpTransport: the streams are established and
\* closed as in Spec, and every request body, collaborator outcome and
\* serving path is tried.
\* The mcp-session-id headers the POSTs of the dispatch specification carry:
\* none, or the id of the last connection that can be created (unknown to
\* the store until then).
RpcHeaders == {Undefined, RandomUUID(MaxConn)}

InitRpc == Init /\ program = "http"

NextRpc ==
    \/ McpGet(TRUE)
    \/ \E c \in Conns : ConnectResolve(c)
    \/ \E c \in Conns : CloseConnection(c)
    \/ \E h1 \in RpcHeaders, body \in Requests :
           \E outcome \in OutcomesFor(body) :
               McpPost(h1, Undefined, body, outcome)
    \/ \E method \in {"GET", "POST"} : ToolsDiscovery(method)
    \/ \E c \in Conns : ServerListTools(c)
    \/ \E c \in Conns, body \in CallToolRequests :
           \E outcome \in OutcomesFor(body) :
               ServerCallTool(c, body, outcome)
    \/ \E upstream \in GeocoderUpstreams : GeocodeCall(upstream)
    \/ \E upstream \in GeocoderUpstreams : ReverseGeocodeCall(upstream)
    \/ \E upstream \in StaticMapUpstreams, placemarks \in PlacemarkValues :
           RenderMapCall(upstream, placemarks)

SpecRpc == InitRpc /\ [][NextRpc]_vars

\* The session store of HttpTransport under a transport id generator that
\* may repeat an id
NextIds ==
    \/ \E sid \in SessionIds : McpGetWithId(sid)
    \/ \E c \in Conns : ConnectResolve(c)
    \/ \E c \in Conns : CloseConnection(c)
    \/ \E h \in HeaderValues : McpDelete(h)
    \/ \E h \in HeaderValues : LegacyMessagePost(h)

SpecIds == InitRpc /\ [][NextIds]_vars

\* What handleRequest answers itself, or through handle404 and
\* handleMethodNotAllowed, for a request its routing does not hand on
Answered(method, path, h, handler, status) ==
    /\ last' = Routed(method, path, Obs(handler, h, status, Undefined, "none"))
    /\ UNCHANGED <<program, endpoint, store, sessionId, onclose, pc, resOpen,
                   cleanups>>

\* handleRequest raises before it has set a header or written anything: the
\* promise of the request listener is rejected and the request gets no
\* answer from the gateway
Unanswered(method, path, h) ==
    /\ last' = [Routed(method, path,
                       Obs("handleRequest", h, 0, Undefined, "none"))
                EXCEPT !.headers = {}]
    /\ UNCHANGED <<program, endpoint, store, sessionId, onclose, pc, resOpen,
                   cleanups>>

\* handleRequest: any request; h is its session-id header (both spellings
\* carry it), accept says whether its Accept header includes
\* text/event-stream
HandleRequest(method, path, h, accept) ==
    /\ program = "http"
    /\ LET handler == Route(method, path)
       IN  CASE ~NewUrlReturns(path) -> Unanswered(method, path, h)
             [] handler = "options" -> Answered(method, path, h, handler, 200)
             [] handler = "handleMcpGet" -> McpGet(accept)
             [] handler = "handleMcpPost" ->
                    \E body \in ProbeRequests : McpPost(h, h, body, "ok")
             [] handler = "handleMcpDelete" -> McpDelete(h)
             [] handler = "handleLegacySseEndpoint" ->
                    IF method # "GET"
                    THEN Answered(method, path, h, "handleMethodNotAllowed", 405)
                    ELSE LegacySseGet
             [] handler = "handleLegacyMessageEndpoint" ->
                    IF method # "POST"
                    THEN Answered(method, path, h, "handleMethodNotAllowed", 405)
                    ELSE LegacyMessagePost(h)
             [] handler = "handleToolsDiscovery" -> ToolsDiscovery(method)
             [] handler = "handleHealthCheck" -> HealthCheck(method)
             [] handler = "handleMethodNotAllowed" ->
                    Answered(method, path, h, handler, 405)
             [] OTHER -> Answered(method, path, h, "handle404", 404)

\* The Accept headers to try for a request: only GET /mcp reads the header
AcceptsFor(method, path) ==
    IF method = "GET" /\ path = "/mcp" THEN BOOLEAN ELSE {FALSE}

\* The session-id headers the requests of the routing specification carry:
\* none, or the id of the first connection
RouteHeaders == {Undefined, RandomUUID(1)}

\* The router of HttpTransport in front of its handlers
NextRoute ==
    \/ \E method \in HttpMethods, path \in Paths, h \in RouteHeaders :
           \E accept \in AcceptsFor(method, path) :
               HandleRequest(method, path, h, accept)
    \/ \E c \in Conns : ConnectResolve(c)

SpecRoute == InitRpc /\ [][NextRoute]_vars

-----------------------------------------------------------------------------
(* The store operations on their own                                       *)

\* number of session ids the store operations are applied to
MaxStore == 3

StoreIds == 1..MaxStore

\* how often the cleanup code is run for one id at most
MaxCleanups == 2

\* ids whose transport has been created
Issued == {i \in DOMAIN cleanups : MapHas(transports, i) \/ cleanups[i] > 0}

\* Init with the cleanup history kept for StoreIds
InitStore ==
    /\ program \in {"http", "sse"}
    /\ transports = EmptyMap
    /\ servers = EmptyMap
    /\ sessionOrder = <<>>
    /\ sessionId = [c \in Conns |-> Undefined]
    /\ onclose = [c \in Conns |-> "unset"]
    /\ pc = [c \in Conns |-> "idle"]
    /\ resOpen = [c \in Conns |-> FALSE]
    /\ endpoint = [c \in Conns |-> "none"]
    /\ cleanups = [i \in StoreIds |-> 0]
    /\ last = Obs("init", Undefined, 0, Undefined, "none")

\* the store statements of a stream establishment for a transport whose
\* sessionId is sid; the transport object is named by its id
StoreStep(sid) ==
    /\ sid \notin Issued
    /\ SetStore(IF program = "http"
                THEN StoreSession(CurrentStore, sid, sid)
                ELSE SseStore(CurrentStore, sid, sid))
    /\ last' = Obs("storeSession", sid, 0, Undefined, "none")
    /\ UNCHANGED <<program, sessionId, onclose, pc, resOpen, endpoint,
                   cleanups>>

\* the cleanup code runs for the transport whose sessionId is sid
CleanupStep(sid) ==
    /\ sid \in Issued
    /\ cleanups[sid] < MaxCleanups
    /\ SetStore(IF program = "http"
                THEN CleanupSession(CurrentStore, sid)
                ELSE SseOnClose(CurrentStore, sid))
    /\ cleanups' = [cleanups EXCEPT ![sid] = @ + 1]
    /\ last' = Obs("cleanupSession", sid, 0, Undefined, "none")
    /\ UNCHANGED <<program, sessionId, onclose, pc, resOpen, endpoint>>

NextStore ==
    \/ \E sid \in StoreIds : StoreStep(sid)
    \/ \E sid \in StoreIds : CleanupStep(sid)

SpecStore == InitStore /\ [][NextStore]_vars

\* the requests of Requests that carry the id 7 or are no JSON object
FrameRequests == {body \in Requests : body.kind = "object" => body.id = "7"}

\* The handlers of HttpTransport that take a request, next to the three
\* steps that operate on the store
NextFrame ==
    \/ McpGet(TRUE)
    \/ \E c \in Conns : ConnectResolve(c)
    \/ \E c \in Conns : CloseConnection(c)
    \/ \E h1 \in RpcHeaders, body \in FrameRequests :
           \E outcome \in OutcomesFor(body) : McpPost(h1, Undefined, body, outcome)
    \/ \E h \in RpcHeaders : McpDelete(h)
    \/ \E h \in RpcHeaders : LegacyMessagePost(h)
    \/ \E method \in {"GET", "POST"} : ToolsDiscovery(method)
    \/ \E method \in {"GET", "POST"} : HealthCheck(method)

SpecFrame == InitRpc /\ [][NextFrame]_vars

-----------------------------------------------------------------------------
(* The two tool-call handlers side by side                                 *)

\* What one handler did with a tools/call: the collaborator invocations, the
\* argument list of the invocation, and the tool result it gave back
Handled(calls, args, result) ==
    [calls |-> calls, args |-> IF calls = <<>> THEN <<>> ELSE args,
     result |-> result]

\* One tools/call for tool name, with params.arguments absent (p "noargs")
\* or the object arguments (p "full"), is given to handleToolCall and to the
\* CallTool handler of a Server, and the collaborator does outcome in both.
ToolCallBoth(name, p, arguments, outcome) ==
    /\ program = "http"
    /\ LET msg == Request("object", "7", "tools/call", p, name)
           s == HandleToolCall(msg, outcome)
           b == CallToolHandler(ParsedCallTool(msg), outcome)
       IN  last' = [op |-> "toolCallBoth", name |-> name, params |-> p,
                    arguments |-> arguments, outcome |-> outcome,
                    stateless |-> Handled(s.calls,
                                          HandleToolCallArgs(name, arguments),
                                          s.resp.result),
                    session |-> Handled(b.calls,
                                        CallToolHandlerArgs(name, arguments),
                                        b.result)]
    /\ UNCHANGED <<program, endpoint, store, sessionId, onclose, pc, resOpen,
                   cleanups>>

NextCall ==
    \E name \in ToolNames \ {JsonUndefined}, p \in {"noargs", "full"} :
        \E arguments \in IF p = "full" THEN ArgumentObjects(name) ELSE {{}} :
            \E outcome \in OutcomesFor(Request("object", "7", "tools/call",
                                               p, name)) :
                ToolCallBoth(name, p, arguments, outcome)

SpecCall == InitRpc /\ [][NextCall]_vars

-----------------------------------------------------------------------------
(* The geocode query of handleGeocode                                      *)

\* handleGeocode up to `const address`: the query it builds for the
\* components it is called with
GeocodeAddress(country, state, city, district, street, house_number) ==
    /\ last.op = "init"
    /\ last' = [op |-> "geocodeAddress",
                parts |-> [country |-> country, state |-> state,
                           city |-> city, district |-> district,
                           street |-> street, house_number |-> house_number],
                address |-> address(country, state, city, district, street,
                                    house_number)]
    /\ UNCHANGED <<program, endpoint, store, sessionId, onclose, pc, resOpen,
                   cleanups>>

NextGeocode ==
    \E country \in ComponentValues("country"),
       state \in ComponentValues("state"),
       city \in ComponentValues("city"),
       district \in ComponentValues("district"),
       street \in ComponentValues("street"),
       house_number \in ComponentValues("house_number") :
        GeocodeAddress(country, state, city, district, street, house_number)

SpecGeocode == InitRpc /\ [][NextGeocode]_vars

TypeOK ==
    /\ program \in {"http", "sse"}
    /\ DOMAIN transports \subseteq SessionIds
    /\ DOMAIN servers \subseteq SessionIds
    /\ \A i \in DOMAIN transports : transports[i] \in Conns
    /\ \A i \in DOMAIN servers : servers[i] \in Conns
    /\ sessionOrder \in Seq(SessionIds)
    /\ sessionId \in [Conns -> SessionIds \cup {Undefined}]
    /\ onclose \in [Conns -> {"unset", "cleanup"}]
    /\ pc \in [Conns -> {"idle", "connecting", "established", "failed"}]
    /\ resOpen \in [Conns -> BOOLEAN]
    /\ endpoint \in [Conns -> {"none", "/mcp", "/message"}]
    /\ cleanups \in [SessionIds -> 0..2]

-----------------------------------------------------------------------------
(* Vocabulary of the properties                                            *)

\* connections whose transport has been constructed
Created == {c \in Conns : pc[c] # "idle"}

\* session ids given out so far
IssuedIds == {sessionId[c] : c \in Created}

\* the connection whose transport carries session id i
ConnOf(i) == CHOOSE c \in Created : sessionId[c] = i

\* ids in the creation-order array
OrderIds == {sessionOrder[i] : i \in 1..Len(sessionOrder)}

\* connections whose transport is in the transport map
StoredConns == {transports[i] : i \in DOMAIN transports}

\* the stored connection that was created last (connections are numbered
\* in creation order)
MostRecentStored == CHOOSE c \in StoredConns : \A d \in StoredConns : d <= c

\* session ids whose cleanup code has run at least once
Cleaned == {i \in SessionIds : cleanups[i] > 0}

StoreEmpty == transports = EmptyMap /\ servers = EmptyMap /\ sessionOrder = <<>>

\* lookup by session id as the running program performs it
Lookup(i) ==
    IF program = "http" THEN FindTransport(CurrentStore, i)
                        ELSE SseResolve(CurrentStore, i)

\* the step just taken stored a session
StoredNow == last.op \in {"mcpGet", "legacySseGet", "sseGet"} /\ Truthy(last.sid)

-----------------------------------------------------------------------------
(* Properties                                                              *)

\* C1: a POST to the legacy message endpoint with no session-id header
\* resolves to no session when the store holds none, to the sole session
\* when it holds one, and to the most recently created stored session when
\* it holds more than one.
C1_ImplicitResolutionThreeWay ==
    (last.op = "legacyPost" /\ last.sid = Undefined) =>
        /\ Cardinality(StoredConns) = 0 =>
               last.target = Undefined /\ last.status = 404
        /\ Cardinality(StoredConns) = 1 => {last.target} = StoredConns
        /\ Cardinality(StoredConns) > 1 => last.target = MostRecentStored

\* C2: the ids of the order array, the keys of the transport map and the
\* keys of the server map are the same set, and no id occurs twice in the
\* order array.
C2_StoreConsistent ==
    /\ OrderIds = DOMAIN transports
    /\ DOMAIN transports = DOMAIN servers
    /\ \A i, j \in 1..Len(sessionOrder) :
           i # j => sessionOrder[i] # sessionOrder[j]

\* C2 witness: a session is stored after an older one was removed by its
\* close callback
C2_Witness ==
    /\ Len(sessionOrder) >= 1
    /\ Cleaned # {}
    /\ last.op = "close"

\* C3, after a store: a lookup by the id just stored gives the transport
\* that carries this id; in general every id in the store looks up to the
\* transport carrying it.
C3_StoredIsFound ==
    /\ StoredNow => Lookup(last.sid) = ConnOf(last.sid)
    /\ \A i \in DOMAIN transports :
           Lookup(i) # Undefined /\ sessionId[Lookup(i)] = i

\* C3, after a removal: a lookup by an id whose cleanup has run gives
\* absent (no id is stored a second time).
C3_RemovedIsAbsent == \A i \in Cleaned : Lookup(i) = Undefined

\* C3, until stored again: a lookup by id turns from absent to present only
\* in a step that stores a session under this id.
C3_AbsentUntilStored ==
    \A i \in SessionIds :
        (Lookup(i) = Undefined /\ Lookup(i)' # Undefined) =>
            /\ StoredNow'
            /\ last'.sid = i
            /\ Lookup(i)' = ConnOf(i)'

\* C3: lookup by session id follows storeSession and cleanupSession.
C3_LookupFollowsStore ==
    /\ [](C3_StoredIsFound /\ C3_RemovedIsAbsent)
    /\ [][C3_AbsentUntilStored]_vars

\* C3 witness: a session was removed by its close callback while another
\* one is still stored
C3_Witness ==
    /\ last.op = "close"
    /\ last.sid \in Cleaned
    /\ Len(sessionOrder) = 1
    /\ program = "http"

\* C4, all removed: once the cleanup has run for every session created,
\* both maps and the order array are empty.
C4_AllRemovedIsEmpty == (IssuedIds \subseteq Cleaned) => StoreEmpty

\* C4, second removal: a cleanup that runs for an id it has already run for
\* leaves both maps and the order array as they are.
C4_SecondRemovalIsNoOp ==
    \A i \in SessionIds :
        (cleanups[i] >= 1 /\ cleanups'[i] = cleanups[i] + 1) =>
            UNCHANGED store

\* C4: N sessions created and then removed in any order leave the store
\* empty, and removing a session a second time changes nothing.
C4_RemoveAllEmptiesStore ==
    /\ []C4_AllRemovedIsEmpty
    /\ [][C4_SecondRemovalIsNoOp]_vars

\* C4 witness: every connection was created and removed, one of them twice
\* (DELETE, then the close event of its connection)
C4_Witness ==
    /\ Created = Conns
    /\ Cleaned = SessionIds
    /\ \E i \in SessionIds : cleanups[i] = 2
    /\ StoreEmpty

\* C5: a POST /mcp that carries no session-id header is answered by the
\* stateless dispatcher and delivered to no session.
C5_NoHeaderPostIsStateless ==
    (last.op = "mcpPost" /\ last.sid = Undefined) =>
        last.route = "dispatcher" /\ last.target = Undefined

\* C6: a message submission whose session-id header names no stored session
\* is answered 404 on POST /mcp and on POST /message, and is neither
\* dispatched nor delivered.
C6_UnknownSessionIs404 ==
    (/\ last.op \in {"mcpPost", "legacyPost"}
     /\ Truthy(last.sid)
     /\ last.sid \notin DOMAIN transports) =>
        last.status = 404 /\ last.route = "none" /\ last.target = Undefined

\* C7: after a DELETE /mcp that named a stored session was answered 200,
\* the session is absent from the store and its channel is released.
C7_DeleteClosesAndRemoves ==
    (last.op = "mcpDelete" /\ last.status = 200) =>
        /\ last.sid \notin DOMAIN transports
        /\ last.sid \notin DOMAIN servers
        /\ last.sid \notin OrderIds
        /\ ~resOpen[ConnOf(last.sid)]

\* C8: a DELETE /mcp whose session-id header is missing, empty or names no
\* stored session is answered 404 and leaves both maps and the order array
\* unchanged.
C8_DeleteUnknownStep ==
    (/\ last'.op = "mcpDelete"
     /\ ~(Truthy(last'.sid) /\ last'.sid \in DOMAIN transports)) =>
        last'.status = 404 /\ UNCHANGED store

C8_DeleteUnknownIs404 == [][C8_DeleteUnknownStep]_vars

\* C8 witness: a DELETE naming an id that is not stored was answered 404
\* while other sessions are stored
C8_Witness ==
    /\ last.op = "mcpDelete"
    /\ last.status = 404
    /\ Truthy(last.sid)
    /\ last.sid \notin DOMAIN transports
    /\ Len(sessionOrder) >= 1

\* C9: a POST to the legacy message endpoint without session-id header that
\* arrives while the store holds no session is answered 404, is neither
\* delivered nor dispatched, and leaves the store unchanged.
C9_LegacyPostNoSessionStep ==
    (/\ last'.op = "legacyPost"
     /\ last'.sid = Undefined
     /\ StoreEmpty) =>
        /\ last'.status = 404
        /\ last'.route = "none"
        /\ last'.target = Undefined
        /\ UNCHANGED store

C9_LegacyPostNoSessionIs404 == [][C9_LegacyPostNoSessionStep]_vars

\* C9 witness: such a POST was answered 404 after sessions came and went
C9_Witness ==
    /\ last.op = "legacyPost"
    /\ last.sid = Undefined
    /\ last.status = 404
    /\ StoreEmpty
    /\ Cleaned # {}
    /\ program = "http"

\* C10: once the connection of a stored session has closed, the session id
\* is in neither map and not in the order array.
C10_ClosedIsRemoved ==
    \A c \in Created :
        ~resOpen[c] =>
            /\ sessionId[c] \notin DOMAIN transports
            /\ sessionId[c] \notin DOMAIN servers
            /\ sessionId[c] \notin OrderIds

\* C11: every session id in the store belongs to a session whose stream is
\* being or has been established and whose channel is still open, and every
\* established session whose channel is still open is in the store.
C11_StoreMatchesOpenChannels ==
    /\ \A i \in DOMAIN transports :
           /\ pc[transports[i]] \in {"connecting", "established"}
           /\ resOpen[transports[i]]
    /\ \A c \in Created :
           (pc[c] = "established" /\ resOpen[c]) =>
               sessionId[c] \in DOMAIN transports

\* ---- protocol dispatch -----------------------------------------------------

\* the last step was a POST /mcp answered by the stateless dispatcher
Stateless == last.op = "mcpPost" /\ last.route = "dispatcher"

\* the last step was the CallTool handler of a session-bound Server
HandlerRan == last.op = "serverCallTool"

KnownTools == {"maps_geocode", "maps_reverse_geocode", "maps_render"}

\* the last step handled a tools/call having this request shape
StatelessToolCall ==
    Stateless /\ last.req.kind = "object" /\ last.req.method = "tools/call"

\* the last step answered with a success envelope: HTTP 200, a result, no error
SuccessEnvelope ==
    /\ last.resp.status = 200
    /\ last.resp.result.kind # "undefined"
    /\ last.resp.error.kind = "undefined"

\* C12: a decodable stateless request whose method is none of initialize,
\* tools/list, tools/call (a missing method included) is answered with an
\* error of code -32601 whose data carries the method of the request, and
\* with no result.
C12_UnknownMethodIs32601 ==
    (/\ Stateless
     /\ last.req.kind = "object"
     /\ last.req.method \notin {"initialize", "tools/list", "tools/call"})
    => /\ last.resp.error.kind = "error"
       /\ last.resp.error.code = -32601
       /\ last.resp.error.dataKind = "method"
       /\ last.resp.error.data = last.req.method
       /\ last.resp.result.kind = "undefined"

C12_Witness ==
    /\ Stateless
    /\ last.req.kind = "object"
    /\ last.req.method = JsonUndefined
    /\ last.resp.error.code = -32601

\* C13: a tools/call whose tool name is none of the three tools is answered,
\* by the stateless dispatcher and by the session-bound handler alike, with a
\* result that has isError true and a text naming the tool, with no protocol
\* error, and no collaborator operation is invoked.
C13_UnknownToolIsInBandError ==
    /\ (/\ StatelessToolCall
        /\ last.req.params # "undefined"
        /\ last.req.name \notin KnownTools)
       => /\ SuccessEnvelope
          /\ last.resp.result.isError
          /\ last.resp.result.content = <<"Unknown tool", last.req.name>>
          /\ last.calls = <<>>
    /\ (HandlerRan /\ last.req.name \notin KnownTools)
       => /\ last.status # 500
          /\ last.resp.result.kind = "toolResult"
          /\ last.resp.result.isError
          /\ last.resp.result.content = <<"Unknown tool", last.req.name>>
          /\ last.calls = <<>>

C13_Witness ==
    /\ HandlerRan
    /\ last.req.name = "maps_unknown"
    /\ last.resp.result.isError

\* a fault was raised while the last tools/call was handled
FaultRaised ==
    \/ last.req.params = "undefined"
    \/ last.req.params = "noargs" /\ last.req.name \in KnownTools
    \/ \E k \in 1..Len(last.calls) : last.calls[k].threw

\* C14: a decodable tools/call is never answered with a JSON-RPC error or an
\* HTTP error status, and when a fault is raised while it is handled (params
\* missing, arguments missing, the collaborator throwing) the answer is a
\* result with isError true.
C14_ToolCallFaultIsInBand ==
    /\ StatelessToolCall
       => /\ SuccessEnvelope
          /\ last.resp.result.kind = "toolResult"
          /\ FaultRaised => last.resp.result.isError
    /\ HandlerRan
       => /\ last.status # 500
          /\ last.resp.result.kind = "toolResult"
          /\ last.resp.error.kind = "undefined"
          /\ FaultRaised => last.resp.result.isError

C14_Witness ==
    /\ StatelessToolCall
    /\ Len(last.calls) = 1
    /\ last.calls[1].threw
    /\ last.resp.result.isError

\* C15: every response of the stateless dispatcher to a request that carries
\* an id carries that id.
C15_ResponseEchoesId ==
    (Stateless /\ last.req.kind = "object" /\ last.req.id # JsonUndefined)
    => last.resp.id = last.req.id

\* C16: every response of the stateless dispatcher has exactly one of result
\* and error.
C16_ExactlyOneOfResultAndError ==
    Stateless =>
        (last.resp.result.kind # "undefined") # (last.resp.error.kind # "undefined")

C16_Witness ==
    /\ Stateless
    /\ last.resp.error.kind = "error"
    /\ last.resp.result.kind = "undefined"

\* C17: a stateless POST whose body is not JSON text or not a JSON object is
\* answered with an error of code -32603 whose data is a string, and no
\* collaborator operation is invoked.
C17_UndecodableIs32603 ==
    (Stateless /\ last.req.kind \in {"invalid", "null", "scalar"})
    => /\ last.resp.error.kind = "error"
       /\ last.resp.error.code = -32603
       /\ last.resp.error.dataKind = "string"
       /\ last.calls = <<>>

\* the last step answered a tool listing
ListingAnswered ==
    \/ Stateless /\ last.req.kind = "object" /\ last.req.method = "tools/list"
    \/ last.op = "serverListTools"
    \/ last.op = "toolsDiscovery" /\ last.status = 200

\* C18: every tool listing, whichever path serves it and whatever preceded
\* it, is maps_geocode, maps_reverse_geocode, maps_render in that order.
C18_ListingIsFixed ==
    ListingAnswered =>
        /\ last.resp.result.kind = "tools"
        /\ last.resp.result.tools =
               <<"maps_geocode", "maps_reverse_geocode", "maps_render">>

C18_Witness ==
    /\ last.op = "serverListTools"
    /\ Cleaned # {}
    /\ last.resp.result.tools = <<"maps_geocode", "maps_reverse_geocode", "maps_render">>

\* C19: a stateless tools/call that names one of the three tools and carries
\* arguments invokes the operation bound to the tool, and when the operation
\* returns, the answer is a success envelope whose content and isError are
\* the ones the operation returned.
C19_CollaboratorResultPassedThrough ==
    (/\ StatelessToolCall
     /\ last.req.params = "full"
     /\ last.req.name \in KnownTools)
    => /\ Len(last.calls) = 1
       /\ last.calls[1].operation = OperationOf(last.req.name)
       /\ ~last.calls[1].threw =>
              /\ SuccessEnvelope
              /\ last.resp.result.content = last.calls[1].content
              /\ last.resp.result.isError = last.calls[1].isError

C19_Witness ==
    /\ StatelessToolCall
    /\ Len(last.calls) = 1
    /\ ~last.calls[1].threw
    /\ last.calls[1].isError
    /\ last.resp.result.isError

\* C20: a tools/call invokes at most one collaborator operation, once, and
\* an invocation that fails is answered with one result that has isError
\* true.
C20_NothingRetries ==
    (StatelessToolCall \/ HandlerRan)
    => /\ Len(last.calls) <= 1
       /\ (Len(last.calls) = 1 /\ (last.calls[1].threw \/ last.calls[1].isError))
          => /\ last.resp.result.kind = "toolResult"
             /\ last.resp.result.isError
             /\ last.resp.error.kind = "undefined"

C20_Witness ==
    /\ HandlerRan
    /\ Len(last.calls) = 1
    /\ last.calls[1].threw
    /\ last.resp.result.isError

\* ---- endpoints, teardown and routing --------------------------------------

\* C22: a GET /mcp whose Accept header does not include text/event-stream is
\* answered 405, creates no transport and leaves the store unchanged.
C22_PlainGetStep ==
    McpGet(FALSE) =>
        /\ last'.status = 405
        /\ UNCHANGED <<store, sessionId, pc, resOpen, endpoint>>

C22_PlainGetIs405 == [][C22_PlainGetStep]_vars

C22_Witness ==
    /\ last.op = "mcpGet"
    /\ last.status = 405
    /\ Len(sessionOrder) >= 1

\* C24, one store: whichever endpoint established it, a session whose
\* stream is established and whose cleanup has not run is in the store; a
\* POST to /mcp or /message that names a stored id is delivered to the
\* transport stored under it; a POST without session id that finds one
\* stored session is delivered to it.
C24_OneStore ==
    /\ \A c \in Created :
           (pc[c] = "established" /\ sessionId[c] \notin Cleaned) =>
               /\ sessionId[c] \in DOMAIN transports
               /\ transports[sessionId[c]] = c
    /\ (/\ program = "http"
        /\ last.op \in {"mcpPost", "legacyPost"}
        /\ Truthy(last.sid)
        /\ last.sid \in DOMAIN transports)
       => last.target = transports[last.sid]
    /\ (/\ program = "http"
        /\ last.op \in {"mcpPost", "legacyPost"}
        /\ last.sid = Undefined
        /\ Len(sessionOrder) = 1)
       => last.target = transports[sessionOrder[1]]

\* C24, termination: a DELETE /mcp that names a stored session whose stream
\* is established, whichever endpoint established it, is answered 200 and
\* removes the session from the store.
C24_DeleteStep ==
    (/\ last'.op = "mcpDelete"
     /\ Truthy(last'.sid)
     /\ last'.sid \in DOMAIN transports
     /\ pc[transports[last'.sid]] = "established")
    => /\ last'.status = 200
       /\ last'.sid \notin DOMAIN transports'
       /\ last'.sid \notin DOMAIN servers'

\* C24: the unified and the legacy endpoints work on one session store.
C24_EndpointsShareStore == []C24_OneStore /\ [][C24_DeleteStep]_vars

\* C24 witness: a session established through /sse is stored next to one
\* established through /mcp, and a POST /mcp naming its id reached it
C24_Witness ==
    /\ last.op = "mcpPost"
    /\ Truthy(last.sid)
    /\ last.target # Undefined
    /\ endpoint[last.target] = "/message"
    /\ \E i \in DOMAIN transports : endpoint[transports[i]] = "/mcp"

\* C27: on every teardown path the channel is released before the session
\* is removed: a session whose cleanup has run has its channel released.
C27_TeardownReleasesChannelFirst ==
    \A i \in Cleaned : ~resOpen[ConnOf(i)]

\* C29: when server.connect has rejected and the request was answered 500,
\* the failed session is in neither map and not in the order array.
C29_FailedEstablishmentLeavesNoEntry ==
    (last.op = "connectFailed" /\ last.status = 500) =>
        /\ last.sid \notin DOMAIN transports
        /\ last.sid \notin DOMAIN servers
        /\ last.sid \notin OrderIds

\* C30: a message submission that names session id X and is delivered is
\* delivered to the transport that carries X and is stored under X.
C30_ExplicitIdReachesItsSession ==
    (/\ last.op \in {"mcpPost", "legacyPost"}
     /\ Truthy(last.sid)
     /\ last.target # Undefined)
    => /\ sessionId[last.target] = last.sid
       /\ MapGet(transports, last.sid) = last.target

\* C30 witness: with two sessions stored, a submission naming the older one
\* reached the older one
C30_Witness ==
    /\ last.op \in {"mcpPost", "legacyPost"}
    /\ Truthy(last.sid)
    /\ Len(sessionOrder) = 2
    /\ last.target # Undefined
    /\ last.target # MostRecentStored
    /\ sessionId[last.target] = last.sid

\* the five routes and the methods each of them supports
KnownPaths == {"/mcp", "/sse", "/message", "/tools", "/health"}

SupportedMethods(path) ==
    CASE path = "/mcp" -> {"GET", "POST", "DELETE"}
      [] path = "/message" -> {"POST"}
      [] OTHER -> {"GET"}

\* C25: a request whose path is none of the five routes is answered 404, and
\* a request to one of them with a method it does not support, OPTIONS
\* aside, is answered 405; neither is delivered or dispatched.
C25_UnknownRouteOrMethod ==
    (last.path # "none" /\ last.method # "OPTIONS") =>
        /\ last.path \notin KnownPaths =>
               last.status = 404 /\ last.target = Undefined /\ last.route = "none"
        /\ (/\ last.path \in KnownPaths
            /\ last.method \notin SupportedMethods(last.path)) =>
               last.status = 405 /\ last.target = Undefined /\ last.route = "none"

\* C26: OPTIONS on any path, with or without a session-id header, is
\* answered 200 without body by the router itself, and every response was
\* written to a response object that has the cross-origin headers set.
C26_PreflightAndCors ==
    /\ last.method = "OPTIONS" =>
           /\ last.op = "options"
           /\ last.status = 200
           /\ last.resp = NoResponse
           /\ last.route = "none"
           /\ last.target = Undefined
    /\ last.status # 0 => CorsHeaders \subseteq last.headers

\* C23: a stream establishment whose transport carries an id that is already
\* in the store leaves both maps and the order array unchanged.
C23_DuplicateStep ==
    (/\ last'.op = "mcpGet"
     /\ Truthy(last'.sid)
     /\ last'.sid \in DOMAIN transports)
    => UNCHANGED store

C23_DuplicateIdIsRejected == [][C23_DuplicateStep]_vars

\* the last step was a call of a collaborator operation
CollaboratorCalled ==
    last.op \in {"handleGeocode", "handleReverseGeocode", "handleRenderMap"}

\* C21: a collaborator operation never raises, and what it returns is a
\* success payload or a result with isError true.
C21_CollaboratorNeverRaises ==
    CollaboratorCalled =>
        /\ ~last.calls[1].threw
        /\ \/ last.calls[1].isError
           \/ last.calls[1].content[1] \in {"location", "image"}

\* C28: a stateless initialize is answered, whatever its params and its id
\* and whatever the store holds, with a success envelope that carries the
\* fixed protocol version, server info and capabilities, and no collaborator
\* operation is invoked.
C28_InitializeAlwaysSucceeds ==
    (/\ Stateless
     /\ last.req.kind = "object"
     /\ last.req.method = "initialize")
    => /\ SuccessEnvelope
       /\ last.resp.result.kind = "initialize"
       /\ last.resp.result.info =
              <<"2024-11-05", "mcp-server/yandex-maps", "0.1.0",
                "capabilities: tools">>
       /\ last.resp.id = last.req.id
       /\ last.calls = <<>>

\* C28 witness: an initialize without params was answered by the dispatcher
\* while a session is stored
C28_Witness ==
    /\ Stateless
    /\ last.req.method = "initialize"
    /\ last.req.params = "undefined"
    /\ Len(sessionOrder) >= 1
    /\ last.resp.result.kind = "initialize"

\* C31: a POST to the legacy message endpoint whose session-id header names
\* an id that is not in the store is answered 404 and delivered to no
\* session, however many sessions the store holds; the sole stored session
\* is not used in its place.
C31_ExplicitHeaderDisablesImplicit ==
    (/\ last.op = "legacyPost"
     /\ Truthy(last.sid)
     /\ last.sid \notin DOMAIN transports)
    => /\ last.status = 404
       /\ last.route = "none"
       /\ last.target = Undefined

\* C31 witness: exactly one session is stored and a POST naming another id
\* was answered 404 by HttpTransport
C31_Witness ==
    /\ program = "http"
    /\ last.op = "legacyPost"
    /\ Truthy(last.sid)
    /\ last.sid \notin DOMAIN transports
    /\ Len(sessionOrder) = 1
    /\ last.status = 404

\* C31 witness for the stand-alone legacy server
C31_WitnessSse ==
    /\ program = "sse"
    /\ last.op = "legacyPost"
    /\ Truthy(last.sid)
    /\ last.sid \notin DOMAIN transports
    /\ Len(sessionOrder) = 1
    /\ last.status = 404

\* the order array without the entries of id x
OrderWithout(arr, x) == SelectSeq(arr, LAMBDA y : y # x)

\* C32: a run of the cleanup code for session X leaves every other id with
\* the transport entry and the server entry it had (present or absent), and
\* leaves the other ids of the order array in the order they had.
C32_CleanupStep ==
    \A x \in DOMAIN cleanups :
        cleanups'[x] # cleanups[x] =>
            /\ \A y \in DOMAIN cleanups \ {x} :
                   /\ MapHas(transports', y) = MapHas(transports, y)
                   /\ MapGet(transports', y) = MapGet(transports, y)
                   /\ MapHas(servers', y) = MapHas(servers, y)
                   /\ MapGet(servers', y) = MapGet(servers, y)
            /\ OrderWithout(sessionOrder', x) = OrderWithout(sessionOrder, x)

C32_RemovalLeavesOthers == [][C32_CleanupStep]_vars

\* C32 witness: a stored session was removed while two others are stored
C32_Witness ==
    /\ last.op = "cleanupSession"
    /\ cleanups[last.sid] = 1
    /\ last.sid \notin DOMAIN transports
    /\ Len(sessionOrder) = 2
    /\ Cardinality(DOMAIN transports) = 2
    /\ Cardinality(DOMAIN servers) = 2

\* C32 witness: the cleanup code ran a second time for a session while
\* another session is stored
C32_WitnessTwice ==
    /\ last.op = "cleanupSession"
    /\ cleanups[last.sid] = 2
    /\ Len(sessionOrder) >= 1

\* an entry was added to a map or to the order array in this step
StoreGrew ==
    \/ DOMAIN transports' \ DOMAIN transports # {}
    \/ DOMAIN servers' \ DOMAIN servers # {}
    \/ Len(sessionOrder') > Len(sessionOrder)

\* an entry was removed from a map or from the order array in this step
StoreShrank ==
    \/ DOMAIN transports \ DOMAIN transports' # {}
    \/ DOMAIN servers \ DOMAIN servers' # {}
    \/ Len(sessionOrder') < Len(sessionOrder)

\* requests that are answered without a store operation
FrameOps == {"mcpPost", "legacyPost", "toolsDiscovery", "healthCheck"}

\* C33: a step that adds to the store is a stream establishment, a step that
\* removes from it is a close callback or a DELETE answered 200, the store
\* changes in no other way, and a POST /mcp (stateless or delivered), a
\* POST /message, the discovery endpoint and the liveness endpoint leave
\* both maps and the order array unchanged.
C33_FrameStep ==
    /\ StoreGrew => last'.op \in {"mcpGet", "legacySseGet"}
    /\ StoreShrank =>
           \/ last'.op = "close"
           \/ last'.op = "mcpDelete" /\ last'.status = 200
    /\ store' # store => StoreGrew \/ StoreShrank
    /\ last'.op \in FrameOps => UNCHANGED store

C33_OnlyEstablishAndRemoveChangeStore == [][C33_FrameStep]_vars

\* C33 witness: a stateless tools/call whose collaborator threw was answered
\* while two sessions are stored
C33_Witness ==
    /\ Stateless
    /\ last.req.method = "tools/call"
    /\ last.calls # <<>>
    /\ last.calls[1].threw
    /\ Len(sessionOrder) = 2

\* C33 witness: a message submission that was delivered and threw
C33_WitnessDelivered ==
    /\ last.op \in {"mcpPost", "legacyPost"}
    /\ last.route = "session"
    /\ last.status # 0
    /\ last.target \in StoredConns

\* C33 witness: the liveness and the discovery endpoint with a session stored
C33_WitnessHealth == last.op = "healthCheck" /\ Len(sessionOrder) >= 1

C33_WitnessTools == last.op = "toolsDiscovery" /\ Len(sessionOrder) >= 1

\* C33 witness: a DELETE answered 200 removed a session, another one stays
C33_WitnessDelete ==
    /\ last.op = "mcpDelete"
    /\ last.status = 200
    /\ last.sid \notin DOMAIN transports
    /\ Len(sessionOrder) = 1

\* the last step was the handling of a request
RequestHandled == last.op \notin {"init", "connected", "connectFailed", "close"}

\* the last request established a stream, which stays open
StreamEstablished ==
    last.op \in {"mcpGet", "legacySseGet", "sseGet"} /\ last.status = 0

\* how many responses the last request got: the status the gateway wrote,
\* or the answer of the transport the request was handed to
ResponsesWritten ==
    IF last.status # 0 \/ last.route = "session" THEN 1 ELSE 0

\* C34: every request that did not establish a stream got exactly one
\* response.
C34_ExactlyOneResponse ==
    (RequestHandled /\ ~StreamEstablished) => ResponsesWritten = 1

\* C35: for the same tool name, the same arguments and the same collaborator
\* outcome, handleToolCall and the CallTool handler invoke the same
\* operation with the same argument list and give back the same isError;
\* when the collaborator returned, they give back the same content.
C35_HandlersAgree ==
    last.op = "toolCallBoth" =>
        /\ Len(last.stateless.calls) = Len(last.session.calls)
        /\ \A i \in 1..Len(last.stateless.calls) :
               last.stateless.calls[i].operation =
                   last.session.calls[i].operation
        /\ last.stateless.args = last.session.args
        /\ last.stateless.result.isError = last.session.result.isError
        /\ (/\ last.stateless.calls # <<>>
            /\ \A i \in 1..Len(last.stateless.calls) :
                   ~last.stateless.calls[i].threw)
           => last.stateless.result.content = last.session.result.content

\* C35 witness: both handlers called handleReverseGeocode with a latitude
\* and without a longitude, and the collaborator reported a failure
C35_Witness ==
    /\ last.op = "toolCallBoth"
    /\ last.name = "maps_reverse_geocode"
    /\ last.outcome = "fail"
    /\ Len(last.stateless.calls) = 1
    /\ Len(last.session.calls) = 1
    /\ last.stateless.args = <<"latitude", JsonUndefined, "lang">>
    /\ last.session.result.isError

\* C35 witness: the collaborator threw in both
C35_WitnessThrew ==
    /\ last.op = "toolCallBoth"
    /\ last.outcome = "throw"
    /\ last.stateless.result.isError
    /\ last.session.result.isError
    /\ last.stateless.result.content # last.session.result.content

\* C35 witness: a known tool without arguments, no collaborator call
C35_WitnessNoArguments ==
    /\ last.op = "toolCallBoth"
    /\ last.name = "maps_render"
    /\ last.params = "noargs"
    /\ last.stateless.calls = <<>>
    /\ last.session.calls = <<>>
    /\ last.stateless.result.isError

\* C36: when a POST /mcp carrying the headers (h1, h2) would be handed to a
\* stored session, named by h1 or, h1 being absent or empty, by h2, a
\* DELETE /mcp carrying the same two headers is answered 200 for that
\* session.
C36_DeleteStep ==
    \A h1 \in HeaderValues, h2 \in HeaderValues :
        (/\ Truthy(OrElse(h1, h2))
         /\ FindTransport(CurrentStore, OrElse(h1, h2)) # Undefined
         /\ McpDeleteHeaders(h1, h2))
        => /\ last'.status = 200
           /\ last'.sid = OrElse(h1, h2)

C36_DeleteReadsHeaderAsPost == [][C36_DeleteStep]_vars

\* the order in which the query names the address components
QueryOrder ==
    <<"house_number", "street", "district", "city", "state", "country">>

\* every component is a string or absent, as the parameters are declared
ComponentsAreStrings == \A n \in DOMAIN last.parts : last.parts[n] # "null"

\* the components that were given a text, in the order of the query
RECURSIVE SuppliedUpTo(_)
SuppliedUpTo(k) ==
    IF k = 0 THEN <<>>
    ELSE SuppliedUpTo(k - 1)
             \o (IF last.parts[QueryOrder[k]] \in {JsonUndefined, ""}
                 THEN <<>> ELSE <<last.parts[QueryOrder[k]]>>)

\* texts with ', ' between each two of them
RECURSIVE Separated(_)
Separated(texts) ==
    IF Len(texts) <= 1 THEN texts
    ELSE <<texts[1], ", ">> \o Separated(Tail(texts))

\* a query without empty segment and without leading or trailing separator
WellSeparated(query) ==
    /\ query # <<>> => query[1] # ", " /\ query[Len(query)] # ", "
    /\ \A i \in 1..(Len(query) - 1) : ~(query[i] = ", " /\ query[i + 1] = ", ")

\* C37: for components that are strings or absent, the geocode query is the
\* components that are neither undefined nor the empty string, in the order
\* house_number, street, district, city, state, country, with ', ' between
\* them; it has no empty segment and no leading or trailing separator.
C37_GeocodeQuery ==
    (last.op = "geocodeAddress" /\ ComponentsAreStrings) =>
        /\ last.address = Separated(SuppliedUpTo(Len(QueryOrder)))
        /\ WellSeparated(last.address)

\* C37 witness: street and state absent, district empty, the others given
C37_Witness ==
    /\ last.op = "geocodeAddress"
    /\ last.parts.street = JsonUndefined
    /\ last.parts.state = JsonUndefined
    /\ last.parts.district = ""
    /\ last.address = <<"house_number", ", ", "city", ", ", "country">>

\* C37 witness: nothing but empty strings and absent components
C37_WitnessEmpty ==
    /\ last.op = "geocodeAddress"
    /\ last.parts.country = ""
    /\ last.parts.city = JsonUndefined
    /\ last.address = <<>>

====
